---- MODULE Spec2Model ----
(***************************************************************************)
(* The fwht crate: the Fast Walsh-Hadamard Transform engine (fwht_slice),  *)
(* its validators, the FWHT trait implementations for Vec, [T; N] and      *)
(* ndarray::Array1, and the free functions fwht_mut / fwht.                *)
(*                                                                         *)
(* One behaviour is one caller scenario: a container is built, one entry   *)
(* point is called on it, the engine runs butterfly by butterfly, and the  *)
(* call returns.  An in-place call that returned Ok may be repeated on the *)
(* same container.                                                         *)
(*                                                                         *)
(* Memory is a heap of two storages: "caller" (the caller's container or   *)
(* buffer) and "copy" (the storage data.clone() allocates).  A container   *)
(* is a layout (lo, len, stride) over a storage: element k lives at the    *)
(* 0-based storage index lo + k * stride.                                  *)
(*                                                                         *)
(* The element type T is a parameter of the crate.  `arith` names the      *)
(* arithmetic of the scenario's T: "exact" (f64 on the small integers of   *)
(* the crate's tests: + and - never fail and never round), "checked" (a    *)
(* fixed-width integer in a build with overflow checks: + and - panic out  *)
(* of range) or "wrapping" (the same integer in a build without them).     *)
(*                                                                         *)
(* Specifications:                                                         *)
(*   Spec        every entry point on every container, exact arithmetic    *)
(*   SpecEngine  one fwht_slice call run fairly, all three arithmetics     *)
(*   SpecLinear  a caller transforming a, b, a + b, a - b and zero         *)
(*   SpecConc    two fwht_slice calls interleaved on disjoint views        *)
(***************************************************************************)
EXTENDS Integers, Sequences, FiniteSets, TLC

\* ------------------------------------------------------------- bounds

\* Longest exhaustively enumerated storage.
MaxLen == 4
\* Element values of the exhaustive inputs are -MaxVal..MaxVal.
MaxVal == 1
\* Length of the additional exhaustively enumerated 0/1 inputs.
WideLen == 8
\* How many times in a row a caller applies the in-place transform.
MaxCalls == 2
\* Width of usize in the model (the crate's targets have 16, 32 or 64).
UsizeBits == 5

RECURSIVE Pow2(_)
Pow2(k) == IF k = 0 THEN 1 ELSE 2 * Pow2(k - 1)

UsizeMax == Pow2(UsizeBits) - 1

\* ------------------------------------------------------ error values

ErrInvalidLength == "Input length must be a power of 2"
ErrNotContiguous == "Array must be contiguous for FWHT"

\* ------------------------------------------------------------- inputs

Vals == (0 - MaxVal)..MaxVal

SmallInputs == UNION {[1..len -> Vals] : len \in 0..MaxLen}

WideInputs == [1..WideLen -> 0..1]

\* The inputs of the crate's own tests.
TestVectors ==
    { <<1, 1, 1, 0>>,
      <<1, 1, 1, 1, 0, 0, 0, 0>>,
      <<42>>,
      <<3, 5>>,
      <<>>,
      <<1, 2, 3, 4>>,
      <<1, 2, 3>>,
      <<1, 1, 0, 0>>,
      <<1, 0, 1, 0, 1, 0, 1, 0, 0, 1, 0, 1, 0, 1, 0, 1>> }

Inputs == SmallInputs \cup WideInputs \cup TestVectors

\* The entry points and the container shapes each accepts.
Calls ==
    [api : {"core"}, shape : {"slice"}, mode : {"mut"}]
    \cup [api : {"fn"}, shape : {"slice", "vec", "array"}, mode : {"mut"}]
    \cup [api : {"fn"}, shape : {"vec", "array"}, mode : {"copy"}]
    \cup [api : {"trait"}, shape : {"vec", "array", "ndarray"}, mode : {"mut", "copy"}]

\* The layouts a container of the shape can have over storage s.
Layouts(sh, s) ==
    CASE sh = "slice" ->
           {r \in [lo : 0..Len(s), len : 0..Len(s), stride : {1}] :
               r.lo + r.len <= Len(s)}
      [] sh = "ndarray" ->
           { [lo |-> 0, len |-> Len(s), stride |-> 1],
             [lo |-> 0, len |-> (Len(s) + 1) \div 2, stride |-> 2],
             [lo |-> IF Len(s) = 0 THEN 0 ELSE Len(s) - 1, len |-> Len(s),
              stride |-> 0 - 1] }
      [] OTHER ->
           { [lo |-> 0, len |-> Len(s), stride |-> 1] }

\* -------------------------------------------------------------- state

VARIABLES
    api,        \* entry point family: core, fn, trait, or a validator
    shape,      \* container shape: slice, vec, array, ndarray
    mode,       \* mut (in place) or copy
    mem,        \* heap: storage id -> sequence of elements
    orig,       \* the caller's storage as it was before the first call
    lo,         \* 0-based offset of the container's first element
    len,        \* number of elements of the container
    stride,     \* distance in storage between consecutive elements
    tgt,        \* storage id of the container the engine is working on
    pc,         \* position of the call
    ret,        \* the call's outcome
    calls,      \* calls made so far on this container
    n, h, i, j, \* locals of fwht_slice
    x, y,       \* locals of the butterfly
    bf,         \* butterflies completed in the current call
    stages,     \* stages completed in the current call
    arg,        \* argument of a validator call
    valid,      \* result of is_valid_fwht_length
    pow,        \* result of next_power_of_two
    arith,      \* arithmetic of the element type: exact, checked, wrapping
    rd, wr,     \* per index of the slice: reads and writes in this stage
    peer,       \* a second fwht_slice call running on another thread
    todo,       \* inputs the caller has still to transform
    saved       \* results the caller has kept, oldest first

vars == <<api, shape, mode, mem, orig, lo, len, stride, tgt, pc, ret, calls,
          n, h, i, j, x, y, bf, stages, arg, valid, pow, arith, rd, wr,
          peer, todo, saved>>

layout == <<lo, len, stride>>
locals == <<n, h, i, j, x, y>>
counters == <<bf, stages>>
scenario == <<api, shape, mode, orig, calls, arg, arith>>
outputs == <<valid, pow>>
access == <<rd, wr>>
harness == <<peer, todo, saved>>

\* ------------------------------------------- the standard library used

RECURSIVE count_ones(_)
count_ones(v) == IF v = 0 THEN 0 ELSE (v % 2) + count_ones(v \div 2)

\* usize::is_power_of_two: exactly one bit set.
is_power_of_two(v) == count_ones(v) = 1

RECURSIVE bit_length(_)
bit_length(v) == IF v = 0 THEN 0 ELSE 1 + bit_length(v \div 2)

leading_zeros(v) == UsizeBits - bit_length(v)

\* usize::one_less_than_next_power_of_two: usize::MAX >> leading_zeros(v - 1).
one_less_than_next_power_of_two(v) ==
    IF v <= 1 THEN 0 ELSE UsizeMax \div Pow2(leading_zeros(v - 1))

\* -------------------------------------------------------- validators

\* Mutant: the n == 0 case is forgotten.
is_valid_without_zero(v) == is_power_of_two(v)

is_valid_fwht_length(v) == v = 0 \/ is_power_of_two(v)

\* The value next_power_of_two computes before it is stored in a usize:
\* n.next_power_of_two() is one_less_than_next_power_of_two() + 1.
next_power_of_two_exact(v) ==
    IF v = 0 THEN 1 ELSE one_less_than_next_power_of_two(v) + 1

\* ------------------------------------------------- containers in memory

\* A Vec, an array or a contiguous slice is viewed in place; an Array1 is
\* a slice only in standard layout (unit stride, or at most one element).
\* Mutant: the storage is taken as a slice whatever the layout.
as_slice_mut_any(sh, l, st) == TRUE

as_slice_mut(sh, l, st) == sh # "ndarray" \/ st = 1 \/ l <= 1

\* 1-based position in the storage of element k of the slice the engine got.
\* Mutant: the slice's offset in the buffer is dropped.
DataIdxNoOffset(k) == k + 1

DataIdx(k) == lo + k + 1

\* The container's elements, read through its layout from storage s.
Elems(s) == [k \in 1..len |-> s[lo + (k - 1) * stride + 1]]

\* data.clone(): a fresh storage holding the same elements.
\* Mutant: a shallow clone, sharing the storage of the original.
CloneAlias(src) == src

Clone(src) == "copy"

\* Where a call continues once the engine has returned: fwht_mut returns the
\* engine's result as its own, fwht applies `?` and wraps the copy in Ok.
AfterEngine == IF mode = "copy" THEN "question_mark" ELSE "done"

\* --------------------------------------------------- element arithmetic

\* Mutant: the sum is off by one.
AddOffByOne(a, b) == a + b + 1

Add(a, b) == a + b

\* Mutant: the difference is taken the wrong way round.
SubSwapped(a, b) == b - a

Sub(a, b) == a - b

\* The stage loop's updates of the half-size and of the block start.
\* Mutant: the half-size grows too fast and a stage is skipped.
NextHQuad(hh) == hh * 4

\* Mutant: the half-size grows by addition instead of doubling.
NextHAdd(hh) == hh + 2

NextH(hh) == hh * 2

\* Mutant: the block loop advances by h, so blocks overlap.
StepByH(hh) == hh

StepBy(hh) == hh * 2

\* The element type of the integer scenarios: i8, the narrowest integer
\* the crate's tests transform.
ElemBits == 8
ElemMin == 0 - Pow2(ElemBits - 1)
ElemMax == Pow2(ElemBits - 1) - 1

InRange(v) == ElemMin <= v /\ v <= ElemMax

\* The two's-complement value an out-of-range result wraps to.
Wrap(v) == ((v - ElemMin) % Pow2(ElemBits)) + ElemMin

\* x + y or x - y panics: the result is out of range and overflow is checked.
Panics(v) == arith = "checked" /\ ~InRange(v)

\* The value an assignment stores for the exact result v.
Stored(v) == IF arith = "wrapping" THEN Wrap(v) ELSE v

\* Access counts of one stage: none yet, and one more at index k (0-based).
NoAccess(l) == [k \in 1..l |-> 0]

Touch(cnt, k) == [cnt EXCEPT ![k + 1] = @ + 1]

\* The guard of fwht_slice: what its first lines decide for a length.
\* Mutant: the power-of-two check is missing.
LengthGuardNoCheck(l) == IF l = 0 THEN "Ok" ELSE "run"

\* Mutant: the empty input is not let through.
LengthGuardNoZero(l) == IF ~is_power_of_two(l) THEN ErrInvalidLength ELSE "run"

LengthGuard(l) ==
    IF l = 0 THEN "Ok"
    ELSE IF ~is_power_of_two(l) THEN ErrInvalidLength
    ELSE "run"

\* --------------------------------------------------------------- Init

InitTransform ==
    /\ \E s \in Inputs, c \in Calls :
         \E lay \in Layouts(c.shape, s) :
            /\ api = c.api
            /\ shape = c.shape
            /\ mode = c.mode
            /\ mem = [caller |-> s, copy |-> <<>>]
            /\ orig = s
            /\ lo = lay.lo
            /\ len = lay.len
            /\ stride = lay.stride
    /\ arg = 0

InitValidator ==
    /\ api \in {"is_valid_fwht_length", "next_power_of_two"}
    /\ shape = "none"
    /\ mode = "none"
    /\ mem = [caller |-> <<>>, copy |-> <<>>]
    /\ orig = <<>>
    /\ lo = 0
    /\ len = 0
    /\ stride = 1
    /\ arg \in 0..UsizeMax

\* No second call is running.
NoPeer == [pc |-> "none", ret |-> "none", lo |-> 0, len |-> 0,
           n |-> 0, h |-> 0, i |-> 0, j |-> 0, x |-> 0, y |-> 0]

\* A call that has not started yet.
InitLocals ==
    /\ tgt = "caller"
    /\ pc = "call"
    /\ ret = "pending"
    /\ calls = 1
    /\ n = 0 /\ h = 0 /\ i = 0 /\ j = 0 /\ x = 0 /\ y = 0
    /\ bf = 0 /\ stages = 0
    /\ rd = <<>> /\ wr = <<>>
    /\ valid = FALSE
    /\ pow = 0

Init ==
    /\ InitTransform \/ InitValidator
    /\ InitLocals
    /\ arith = "exact"
    /\ peer = NoPeer
    /\ todo = <<>>
    /\ saved = <<>>

\* ------------------------------------------------------ entry points

\* core::fwht_slice called directly on a borrowed slice.
CallFwhtSlice ==
    /\ api = "core" /\ pc = "call"
    /\ pc' = "len_check"
    /\ UNCHANGED <<access, harness, scenario, mem, layout, tgt, ret, locals, counters, outputs>>

\* functions::fwht_mut: fwht_slice(data.as_mut()).
FnFwhtMut ==
    /\ api = "fn"
    /\ pc = IF mode = "mut" THEN "call" ELSE "call_mut"
    /\ pc' = "len_check"
    /\ UNCHANGED <<access, harness, scenario, mem, layout, tgt, ret, locals, counters, outputs>>

\* functions::fwht: let mut result = data.clone(); fwht_mut(&mut result)
FnFwht ==
    /\ api = "fn" /\ mode = "copy" /\ pc = "call"
    /\ mem' = [mem EXCEPT ![Clone(tgt)] = mem[tgt]]
    /\ tgt' = Clone(tgt)
    /\ pc' = "call_mut"
    /\ UNCHANGED <<access, harness, scenario, layout, ret, locals, counters, outputs>>

\* functions::fwht: `?` hands an Err on, otherwise Ok(result).
FnFwhtReturn ==
    /\ api = "fn" /\ pc = "question_mark"
    /\ pc' = "done"
    /\ UNCHANGED <<access, harness, scenario, mem, layout, tgt, ret, locals, counters, outputs>>

\* impl FWHT for Vec<T>: fwht_slice(self.as_mut_slice()).
VecFwhtMut ==
    /\ api = "trait" /\ shape = "vec"
    /\ pc = IF mode = "mut" THEN "call" ELSE "call_mut"
    /\ pc' = "len_check"
    /\ UNCHANGED <<access, harness, scenario, mem, layout, tgt, ret, locals, counters, outputs>>

\* impl FWHT for Vec<T>: let mut result = self.clone(); result.fwht_mut()
VecFwht ==
    /\ api = "trait" /\ shape = "vec" /\ mode = "copy" /\ pc = "call"
    /\ mem' = [mem EXCEPT ![Clone(tgt)] = mem[tgt]]
    /\ tgt' = Clone(tgt)
    /\ pc' = "call_mut"
    /\ UNCHANGED <<access, harness, scenario, layout, ret, locals, counters, outputs>>

VecFwhtReturn ==
    /\ api = "trait" /\ shape = "vec" /\ pc = "question_mark"
    /\ pc' = "done"
    /\ UNCHANGED <<access, harness, scenario, mem, layout, tgt, ret, locals, counters, outputs>>

\* impl FWHT for [T; N]: fwht_slice(self.as_mut_slice()).
ArrayFwhtMut ==
    /\ api = "trait" /\ shape = "array"
    /\ pc = IF mode = "mut" THEN "call" ELSE "call_mut"
    /\ pc' = "len_check"
    /\ UNCHANGED <<access, harness, scenario, mem, layout, tgt, ret, locals, counters, outputs>>

\* Mutant: the copy is returned without being transformed.
ArrayFwhtNoTransform ==
    /\ api = "trait" /\ shape = "array" /\ mode = "copy" /\ pc = "call"
    /\ mem' = [mem EXCEPT ![Clone(tgt)] = mem[tgt]]
    /\ tgt' = Clone(tgt)
    /\ pc' = "question_mark"
    /\ ret' = "Ok"
    /\ UNCHANGED <<access, harness, scenario, layout, locals, counters, outputs>>

\* impl FWHT for [T; N]: let mut result = *self; result.fwht_mut()
ArrayFwht ==
    /\ api = "trait" /\ shape = "array" /\ mode = "copy" /\ pc = "call"
    /\ mem' = [mem EXCEPT ![Clone(tgt)] = mem[tgt]]
    /\ tgt' = Clone(tgt)
    /\ pc' = "call_mut"
    /\ UNCHANGED <<access, harness, scenario, layout, ret, locals, counters, outputs>>

ArrayFwhtReturn ==
    /\ api = "trait" /\ shape = "array" /\ pc = "question_mark"
    /\ pc' = "done"
    /\ UNCHANGED <<access, harness, scenario, mem, layout, tgt, ret, locals, counters, outputs>>

\* impl FWHT for Array1<T>: the engine runs only on a contiguous array.
NdarrayFwhtMut ==
    /\ api = "trait" /\ shape = "ndarray"
    /\ pc = IF mode = "mut" THEN "call" ELSE "call_mut"
    /\ IF as_slice_mut(shape, len, stride)
       THEN /\ pc' = "len_check"
            /\ ret' = ret
       ELSE /\ pc' = AfterEngine
            /\ ret' = ErrNotContiguous
    /\ UNCHANGED <<access, harness, scenario, mem, layout, tgt, locals, counters, outputs>>

\* impl FWHT for Array1<T>: self.clone() keeps the layout of self.
NdarrayFwht ==
    /\ api = "trait" /\ shape = "ndarray" /\ mode = "copy" /\ pc = "call"
    /\ mem' = [mem EXCEPT ![Clone(tgt)] = mem[tgt]]
    /\ tgt' = Clone(tgt)
    /\ pc' = "call_mut"
    /\ UNCHANGED <<access, harness, scenario, layout, ret, locals, counters, outputs>>

NdarrayFwhtReturn ==
    /\ api = "trait" /\ shape = "ndarray" /\ pc = "question_mark"
    /\ pc' = "done"
    /\ UNCHANGED <<access, harness, scenario, mem, layout, tgt, ret, locals, counters, outputs>>

\* ------------------------------------------------ the engine, fwht_slice

\* let n = data.len(); the two early returns; let mut h = 1.
LenCheck ==
    /\ pc = "len_check"
    /\ n' = len
    /\ IF LengthGuard(len) = "run"
       THEN /\ h' = 1
            /\ pc' = "while"
            /\ ret' = ret
       ELSE /\ h' = h
            /\ pc' = AfterEngine
            /\ ret' = LengthGuard(len)
    /\ UNCHANGED <<access, harness, scenario, mem, layout, tgt, i, j, x, y, counters, outputs>>

\* while h < n { for i in (0..n).step_by(h * 2) ... }  Ok(())
While ==
    /\ pc = "while"
    /\ IF h < n
       THEN /\ i' = 0
            /\ pc' = "for_i"
            /\ ret' = ret
            /\ rd' = NoAccess(n)
            /\ wr' = NoAccess(n)
       ELSE /\ i' = i
            /\ pc' = AfterEngine
            /\ ret' = "Ok"
            /\ UNCHANGED access
    /\ UNCHANGED <<harness, scenario, mem, layout, tgt, n, h, j, x, y, counters, outputs>>

\* One turn of the block loop: the next block, or h *= 2 after the last.
ForI ==
    /\ pc = "for_i"
    /\ IF i < n
       THEN /\ j' = i
            /\ pc' = "for_j"
            /\ UNCHANGED <<h, stages>>
       ELSE /\ h' = NextH(h)
            /\ stages' = stages + 1
            /\ pc' = "while"
            /\ j' = j
    /\ UNCHANGED <<access, harness, scenario, mem, layout, tgt, ret, n, i, x, y, bf, outputs>>

\* One turn of for j in i..i + h.
ForJ ==
    /\ pc = "for_j"
    /\ IF j < i + h
       THEN /\ pc' = "read_x"
            /\ i' = i
       ELSE /\ i' = i + StepBy(h)
            /\ pc' = "for_i"
    /\ UNCHANGED <<access, harness, scenario, mem, layout, tgt, ret, n, h, j, x, y, counters,
                   outputs>>

\* let x = data[j];  an index outside the slice panics.
ReadX ==
    /\ pc = "read_x"
    /\ IF j < n
       THEN /\ x' = mem[tgt][DataIdx(j)]
            /\ rd' = Touch(rd, j)
            /\ pc' = "read_y"
            /\ ret' = ret
       ELSE /\ x' = x
            /\ rd' = rd
            /\ pc' = "done"
            /\ ret' = "panic"
    /\ UNCHANGED <<wr, harness, scenario, mem, layout, tgt, n, h, i, j, y, counters, outputs>>

\* let y = data[j + h];
ReadY ==
    /\ pc = "read_y"
    /\ IF j + h < n
       THEN /\ y' = mem[tgt][DataIdx(j + h)]
            /\ rd' = Touch(rd, j + h)
            /\ pc' = "write_lo"
            /\ ret' = ret
       ELSE /\ y' = y
            /\ rd' = rd
            /\ pc' = "done"
            /\ ret' = "panic"
    /\ UNCHANGED <<wr, harness, scenario, mem, layout, tgt, n, h, i, j, x, counters, outputs>>

\* data[j] = x + y;  the sum is computed first: where it overflows and
\* the build checks overflow, the call panics and nothing is stored.
WriteLo ==
    /\ pc = "write_lo"
    /\ IF Panics(Add(x, y))
       THEN /\ pc' = "done"
            /\ ret' = "panic"
            /\ UNCHANGED <<mem, wr>>
       ELSE /\ mem' = [mem EXCEPT ![tgt][DataIdx(j)] = Stored(Add(x, y))]
            /\ wr' = Touch(wr, j)
            /\ pc' = "write_hi"
            /\ ret' = ret
    /\ UNCHANGED <<rd, harness, scenario, layout, tgt, locals, counters, outputs>>

\* data[j + h] = x - y;  and the j loop moves on.
WriteHi ==
    /\ pc = "write_hi"
    /\ IF Panics(Sub(x, y))
       THEN /\ pc' = "done"
            /\ ret' = "panic"
            /\ UNCHANGED <<mem, wr, j, bf>>
       ELSE /\ mem' = [mem EXCEPT ![tgt][DataIdx(j + h)] = Stored(Sub(x, y))]
            /\ wr' = Touch(wr, j + h)
            /\ j' = j + 1
            /\ bf' = bf + 1
            /\ pc' = "for_j"
            /\ ret' = ret
    /\ UNCHANGED <<rd, harness, scenario, layout, tgt, n, h, i, x, y, stages, outputs>>

\* ---------------------------------------------------- the caller again

\* The caller applies the in-place transform once more to the same data.
CallAgain ==
    /\ pc = "done" /\ mode = "mut" /\ ret = "Ok"
    /\ calls < MaxCalls
    /\ calls' = calls + 1
    /\ pc' = "call"
    /\ ret' = "pending"
    /\ n' = 0 /\ h' = 0 /\ i' = 0 /\ j' = 0 /\ x' = 0 /\ y' = 0
    /\ bf' = 0 /\ stages' = 0
    /\ rd' = <<>> /\ wr' = <<>>
    /\ UNCHANGED <<harness, arith, api, shape, mode, orig, arg, mem, layout, tgt, outputs>>

\* ------------------------------------------------------ validator calls

IsValidFwhtLength ==
    /\ api = "is_valid_fwht_length" /\ pc = "call"
    /\ valid' = is_valid_fwht_length(arg)
    /\ ret' = "returned"
    /\ pc' = "done"
    /\ UNCHANGED <<access, harness, scenario, mem, layout, tgt, locals, counters, pow>>

\* The result fits in a usize.
NextPowerOfTwo ==
    /\ api = "next_power_of_two" /\ pc = "call"
    /\ next_power_of_two_exact(arg) <= UsizeMax
    /\ pow' = next_power_of_two_exact(arg)
    /\ ret' = "returned"
    /\ pc' = "done"
    /\ UNCHANGED <<access, harness, scenario, mem, layout, tgt, locals, counters, valid>>

\* The result does not fit and the build checks overflow: the + 1 panics.
NextPowerOfTwoOverflowChecked ==
    /\ api = "next_power_of_two" /\ pc = "call"
    /\ next_power_of_two_exact(arg) > UsizeMax
    /\ ret' = "panic"
    /\ pc' = "done"
    /\ UNCHANGED <<access, harness, scenario, mem, layout, tgt, locals, counters, outputs>>

\* The result does not fit and the build wraps: the + 1 wraps around.
NextPowerOfTwoOverflowWrapped ==
    /\ api = "next_power_of_two" /\ pc = "call"
    /\ next_power_of_two_exact(arg) > UsizeMax
    /\ pow' = next_power_of_two_exact(arg) % Pow2(UsizeBits)
    /\ ret' = "returned"
    /\ pc' = "done"
    /\ UNCHANGED <<access, harness, scenario, mem, layout, tgt, locals, counters, valid>>

\* --------------------------------------------------------------- Next

Next ==
    \/ CallFwhtSlice
    \/ FnFwhtMut
    \/ FnFwht
    \/ FnFwhtReturn
    \/ VecFwhtMut
    \/ VecFwht
    \/ VecFwhtReturn
    \/ ArrayFwhtMut
    \/ ArrayFwht
    \/ ArrayFwhtReturn
    \/ NdarrayFwhtMut
    \/ NdarrayFwht
    \/ NdarrayFwhtReturn
    \/ LenCheck
    \/ While
    \/ ForI
    \/ ForJ
    \/ ReadX
    \/ ReadY
    \/ WriteLo
    \/ WriteHi
    \/ CallAgain
    \/ IsValidFwhtLength
    \/ NextPowerOfTwo
    \/ NextPowerOfTwoOverflowChecked
    \/ NextPowerOfTwoOverflowWrapped

Spec == Init /\ [][Next]_vars

\* ================================== two calls on disjoint views at once
\*
\* Two threads each call fwht_slice on its own &mut [T] view of one buffer
\* (the halves of a split_at_mut, two chunks_mut chunks, ...).  The first
\* call is the engine above, working on the window (lo, len); the second
\* is the same engine with its own locals in `peer`, working on the window
\* (peer.lo, peer.len).  The scheduler interleaves their steps freely.

\* Length of the buffer the two views are taken from.
ConcLen == 6

ConcInputs == [1..ConcLen -> 0..1]

Windows(s) == {w \in [lo : 0..Len(s), len : 0..Len(s)] : w.lo + w.len <= Len(s)}

Disjoint(v, w) == v.lo + v.len <= w.lo \/ w.lo + w.len <= v.lo

\* 1-based position in the buffer of the second view's element k.
\* Mutant: the second call works from the start of the buffer.
PeerIdxNoOffset(k) == k + 1

PeerIdx(k) == peer.lo + k + 1

InitConc ==
    /\ \E s \in ConcInputs :
         \E v \in Windows(s), w \in Windows(s) :
            /\ Disjoint(v, w)
            /\ mem = [caller |-> s, copy |-> <<>>]
            /\ orig = s
            /\ lo = v.lo
            /\ len = v.len
            /\ peer = [NoPeer EXCEPT !.pc = "call", !.ret = "pending",
                                     !.lo = w.lo, !.len = w.len]
    /\ api = "core"
    /\ shape = "slice"
    /\ mode = "mut"
    /\ stride = 1
    /\ arg = 0
    /\ InitLocals
    /\ arith = "exact"
    /\ todo = <<>>
    /\ saved = <<>>

\* What no step of the second call touches: the first call's locals.
first == <<scenario, layout, tgt, pc, ret, locals, counters, access, outputs,
           todo, saved>>

PeerCall ==
    /\ peer.pc = "call"
    /\ peer' = [peer EXCEPT !.pc = "len_check"]
    /\ UNCHANGED <<first, mem>>

PeerLenCheck ==
    /\ peer.pc = "len_check"
    /\ peer' = IF LengthGuard(peer.len) = "run"
               THEN [peer EXCEPT !.n = peer.len, !.h = 1, !.pc = "while"]
               ELSE [peer EXCEPT !.n = peer.len, !.pc = "done",
                                 !.ret = LengthGuard(peer.len)]
    /\ UNCHANGED <<first, mem>>

PeerWhile ==
    /\ peer.pc = "while"
    /\ peer' = IF peer.h < peer.n
               THEN [peer EXCEPT !.i = 0, !.pc = "for_i"]
               ELSE [peer EXCEPT !.pc = "done", !.ret = "Ok"]
    /\ UNCHANGED <<first, mem>>

PeerForI ==
    /\ peer.pc = "for_i"
    /\ peer' = IF peer.i < peer.n
               THEN [peer EXCEPT !.j = peer.i, !.pc = "for_j"]
               ELSE [peer EXCEPT !.h = NextH(peer.h), !.pc = "while"]
    /\ UNCHANGED <<first, mem>>

PeerForJ ==
    /\ peer.pc = "for_j"
    /\ peer' = IF peer.j < peer.i + peer.h
               THEN [peer EXCEPT !.pc = "read_x"]
               ELSE [peer EXCEPT !.i = peer.i + StepBy(peer.h), !.pc = "for_i"]
    /\ UNCHANGED <<first, mem>>

PeerReadX ==
    /\ peer.pc = "read_x"
    /\ peer' = IF peer.j < peer.n
               THEN [peer EXCEPT !.x = mem.caller[PeerIdx(peer.j)],
                                 !.pc = "read_y"]
               ELSE [peer EXCEPT !.pc = "done", !.ret = "panic"]
    /\ UNCHANGED <<first, mem>>

PeerReadY ==
    /\ peer.pc = "read_y"
    /\ peer' = IF peer.j + peer.h < peer.n
               THEN [peer EXCEPT !.y = mem.caller[PeerIdx(peer.j + peer.h)],
                                 !.pc = "write_lo"]
               ELSE [peer EXCEPT !.pc = "done", !.ret = "panic"]
    /\ UNCHANGED <<first, mem>>

PeerWriteLo ==
    /\ peer.pc = "write_lo"
    /\ IF Panics(Add(peer.x, peer.y))
       THEN /\ peer' = [peer EXCEPT !.pc = "done", !.ret = "panic"]
            /\ mem' = mem
       ELSE /\ mem' = [mem EXCEPT !.caller[PeerIdx(peer.j)] =
                                     Stored(Add(peer.x, peer.y))]
            /\ peer' = [peer EXCEPT !.pc = "write_hi"]
    /\ UNCHANGED first

PeerWriteHi ==
    /\ peer.pc = "write_hi"
    /\ IF Panics(Sub(peer.x, peer.y))
       THEN /\ peer' = [peer EXCEPT !.pc = "done", !.ret = "panic"]
            /\ mem' = mem
       ELSE /\ mem' = [mem EXCEPT !.caller[PeerIdx(peer.j + peer.h)] =
                                     Stored(Sub(peer.x, peer.y))]
            /\ peer' = [peer EXCEPT !.j = peer.j + 1, !.pc = "for_j"]
    /\ UNCHANGED first

\* The steps of one direct call of the engine.
NextEngine ==
    \/ CallFwhtSlice
    \/ LenCheck
    \/ While
    \/ ForI
    \/ ForJ
    \/ ReadX
    \/ ReadY
    \/ WriteLo
    \/ WriteHi

NextPeer ==
    \/ PeerCall
    \/ PeerLenCheck
    \/ PeerWhile
    \/ PeerForI
    \/ PeerForJ
    \/ PeerReadX
    \/ PeerReadY
    \/ PeerWriteLo
    \/ PeerWriteHi

NextConc == NextEngine \/ NextPeer

SpecConc == InitConc /\ [][NextConc]_vars

\* ============================================ one direct call, run fairly
\*
\* fwht_slice called once on a whole buffer, of f64 elements (exact on the
\* inputs here) or of i8 elements in a build with or without overflow
\* checks.  The call is synchronous and has no suspension point: a step
\* that can be taken is taken, which is weak fairness on the engine's steps.

\* i8 inputs: small values and the two ends of the type's range.
IntVals == Vals \cup {ElemMin, ElemMax}

IntInputs == UNION {[1..l -> IntVals] : l \in 0..MaxLen}

InitEngine ==
    /\ \E a \in {"exact", "checked", "wrapping"} :
          \E s \in (IF a = "exact" THEN Inputs ELSE IntInputs) :
             /\ arith = a
             /\ mem = [caller |-> s, copy |-> <<>>]
             /\ orig = s
             /\ len = Len(s)
    /\ api = "core"
    /\ shape = "slice"
    /\ mode = "mut"
    /\ lo = 0
    /\ stride = 1
    /\ arg = 0
    /\ InitLocals
    /\ peer = NoPeer
    /\ todo = <<>>
    /\ saved = <<>>

SpecEngine == InitEngine /\ [][NextEngine]_vars /\ WF_vars(NextEngine)

\* ==================================== a caller transforming several inputs
\*
\* A caller holds two sequences a and b of one valid length and transforms,
\* one call after the other, a, b, a + b, a - b and the all-zero sequence,
\* keeping each result.  Elements are f64 on small integers (exact).

LinVals == 0..MaxVal

LinLens == {l \in 0..MaxLen : is_valid_fwht_length(l)}

SeqAdd(a, b) == [k \in 1..Len(a) |-> a[k] + b[k]]

SeqSub(a, b) == [k \in 1..Len(a) |-> a[k] - b[k]]

Zeros(l) == [k \in 1..l |-> 0]

InitLinear ==
    /\ \E l \in LinLens :
          \E a \in [1..l -> LinVals], b \in [1..l -> LinVals] :
             /\ mem = [caller |-> a, copy |-> <<>>]
             /\ orig = a
             /\ len = l
             /\ todo = <<b, SeqAdd(a, b), SeqSub(a, b), Zeros(l)>>
    /\ saved = <<>>
    /\ api = "core"
    /\ shape = "slice"
    /\ mode = "mut"
    /\ lo = 0
    /\ stride = 1
    /\ arg = 0
    /\ InitLocals
    /\ arith = "exact"
    /\ peer = NoPeer

\* The call has returned: the caller keeps the result and passes the engine
\* its next input.
CallNext ==
    /\ pc = "done" /\ todo # <<>>
    /\ saved' = Append(saved, mem.caller)
    /\ mem' = [mem EXCEPT !.caller = Head(todo)]
    /\ orig' = Head(todo)
    /\ todo' = Tail(todo)
    /\ pc' = "call"
    /\ ret' = "pending"
    /\ n' = 0 /\ h' = 0 /\ i' = 0 /\ j' = 0 /\ x' = 0 /\ y' = 0
    /\ bf' = 0 /\ stages' = 0
    /\ rd' = <<>> /\ wr' = <<>>
    /\ UNCHANGED <<api, shape, mode, calls, arg, arith, layout, tgt, peer, outputs>>

NextLinear == NextEngine \/ CallNext

SpecLinear == InitLinear /\ [][NextLinear]_vars

\* ================================================================ claims

\* ------------------------------------------- definitions the claims use

\* popcount(a AND b)
RECURSIVE PopcountAnd(_, _)
PopcountAnd(a, b) ==
    IF a = 0 \/ b = 0 THEN 0
    ELSE (a % 2) * (b % 2) + PopcountAnd(a \div 2, b \div 2)

HadamardSign(a, b) == IF PopcountAnd(a, b) % 2 = 0 THEN 1 ELSE 0 - 1

\* sum over i in 0..m-1 of (-1)^popcount(i AND k) * s[i]  (s is 1-based)
RECURSIVE HadamardSum(_, _, _)
HadamardSum(s, k, m) ==
    IF m = 0 THEN 0
    ELSE HadamardSum(s, k, m - 1) + HadamardSign(m - 1, k) * s[m]

\* The Walsh-Hadamard transform of s in natural ordering.
WHT(s) == [k \in 1..Len(s) |-> HadamardSum(s, k - 1, Len(s))]

\* v is an exact power of two.
IsPow2(v) == \E k \in 0..UsizeBits : v = Pow2(k)

ValidLen(l) == l = 0 \/ IsPow2(l)

\* The container's elements before the first call, and those of the
\* container the call worked on (the caller's own, or the copy) now.
OrigElems == Elems(orig)
NowElems == Elems(mem[tgt])

Transforming == api \in {"core", "fn", "trait"}

\* The container cannot be viewed as one contiguous run of elements.
NonContiguous == shape = "ndarray" /\ stride # 1 /\ len > 1

EnginePcs == {"len_check", "while", "for_i", "for_j", "read_x", "read_y",
              "write_lo", "write_hi"}

\* What a call returns for an element sequence, whatever the entry point.
RefOutcome(s) ==
    IF ValidLen(Len(s))
    THEN [ret |-> "Ok", data |-> WHT(s)]
    ELSE [ret |-> ErrInvalidLength, data |-> s]

\* ------------------------------------------------------------------ C1

\* C1: a successful call on a view of length n = 2^m leaves a view of the
\* same length whose element k is the Hadamard coefficient
\* sum_i (-1)^popcount(i AND k) * input[i]; in particular the four test
\* vectors give the documented results.
C1_HadamardCoefficients ==
    (Transforming /\ pc = "done" /\ ret = "Ok" /\ calls = 1) =>
        /\ Len(mem[tgt]) = Len(orig)
        /\ Len(NowElems) = Len(OrigElems)
        /\ \A k \in 1..len : NowElems[k] = HadamardSum(OrigElems, k - 1, len)
        /\ OrigElems = <<1, 1, 1, 0>> => NowElems = <<3, 1, 1, 0 - 1>>
        /\ OrigElems = <<1, 1, 1, 1, 0, 0, 0, 0>>
              => NowElems = <<4, 0, 0, 0, 4, 0, 0, 0>>
        /\ OrigElems = <<3, 5>> => NowElems = <<8, 0 - 2>>
        /\ OrigElems = <<1, 2, 3, 4>> => NowElems = <<10, 0 - 2, 0 - 4, 0>>
        /\ OrigElems = <<1, 0, 1, 0, 1, 0, 1, 0, 0, 1, 0, 1, 0, 1, 0, 1>>
              => NowElems = <<8, 0, 0, 0, 0, 0, 0, 0, 0, 8, 0, 0, 0, 0, 0, 0>>

C1_Witness ==
    /\ api = "core" /\ pc = "done" /\ ret = "Ok" /\ calls = 1
    /\ OrigElems = <<1, 1, 1, 1, 0, 0, 0, 0>>
    /\ NowElems = <<4, 0, 0, 0, 4, 0, 0, 0>>
    /\ bf = 12

\* ------------------------------------------------------------------ C2

\* C2: for n = 0 or a power of two, applying the in-place transform twice
\* with no rescaling leaves every original element multiplied by exactly n
\* (unchanged for n = 1), and dividing by n gives the original back.
C2_TwiceScalesByN ==
    (Transforming /\ pc = "done" /\ ret = "Ok" /\ calls = 2) =>
        /\ Len(NowElems) = Len(OrigElems)
        /\ \A k \in 1..len :
              /\ NowElems[k] = len * OrigElems[k]
              /\ NowElems[k] % len = 0
              /\ NowElems[k] \div len = OrigElems[k]
        /\ len = 1 => NowElems = OrigElems

C2_Witness ==
    /\ mode = "mut" /\ pc = "done" /\ ret = "Ok" /\ calls = 2
    /\ OrigElems = <<1, 2, 3, 4>>
    /\ NowElems = <<4, 8, 12, 16>>

\* ------------------------------------------------------------------ C3

\* C3 as stated: for every length that is neither 0 nor a power of two,
\* the in-place and the copy operation return the InvalidLength error and
\* leave every element of the input as it was.
C3_InvalidLengthAlways ==
    (Transforming /\ ~ValidLen(len)) =>
        /\ mem.caller = orig
        /\ pc = "done" => ret = ErrInvalidLength

\* C3 as amended: the same, except that a non-contiguous Array1 returns the
\* NotContiguous error instead; in both cases no element is ever written
\* (the check comes before the first write) and the input is unchanged.
C3_InvalidLengthRejected ==
    (Transforming /\ ~ValidLen(len)) =>
        /\ mem.caller = orig
        /\ mem[tgt] = orig
        /\ bf = 0
        /\ pc \notin {"read_x", "read_y", "write_lo", "write_hi"}
        /\ ret \in {"pending", ErrInvalidLength, ErrNotContiguous}
        /\ pc = "done" =>
              ret = IF NonContiguous THEN ErrNotContiguous
                    ELSE ErrInvalidLength

C3_Witness ==
    /\ mode = "copy" /\ pc = "done" /\ len = 3
    /\ ret = "Input length must be a power of 2"
    /\ n = 3
    /\ mem.caller = <<1, 2, 3>>

\* ------------------------------------------------------------------ C4

\* C4: the copy-returning operation never changes its input, whatever the
\* length and whether it returns Ok or Err, and on success the returned
\* container is a separate one that holds the transform.
C4_CopyLeavesInput ==
    (Transforming /\ mode = "copy") =>
        /\ mem.caller = orig
        /\ (pc = "done" /\ ret = "Ok") =>
              /\ tgt # "caller"
              /\ Len(mem[tgt]) = Len(orig)
              /\ NowElems = WHT(OrigElems)
        /\ pc = "done" => ret \in {"Ok", ErrInvalidLength, ErrNotContiguous}

C4_Witness ==
    /\ mode = "copy" /\ pc = "done" /\ ret = "Ok"
    /\ mem.caller = <<1, 1, 1, 0>>
    /\ mem.copy = <<3, 1, 1, 0 - 1>>
    /\ tgt = "copy"

\* ------------------------------------------------------------------ C5

\* C5: the in-place transform of a view of length 0 returns Ok and changes
\* nothing; of a view of length 1 it returns Ok with the element unchanged,
\* and the stage loop performs no butterfly.
C5_EmptyAndSingle ==
    (Transforming /\ mode = "mut" /\ len <= 1) =>
        /\ mem.caller = orig
        /\ bf = 0
        /\ stages = 0
        /\ ret \in {"pending", "Ok"}
        /\ pc = "done" => (ret = "Ok" /\ NowElems = OrigElems)

C5_Witness ==
    /\ mode = "mut" /\ pc = "done" /\ ret = "Ok" /\ len = 1
    /\ NowElems = <<42>>
    /\ n = 1 /\ h = 1

\* ------------------------------------------------------------------ C6

\* C6: is_valid_fwht_length(n) is true exactly when n = 0 or n is a power
\* of two, for every n and without failing; and fwht_slice returns Ok on a
\* view of length n exactly when is_valid_fwht_length(n) is true.
C6_ValidLengthIff ==
    /\ (api = "is_valid_fwht_length" /\ pc = "done") =>
          /\ ret = "returned"
          /\ valid <=> (arg = 0 \/ IsPow2(arg))
    /\ (api = "core" /\ pc = "done") =>
          /\ ret \in {"Ok", ErrInvalidLength}
          /\ (ret = "Ok") <=> is_valid_fwht_length(len)

C6_Witness ==
    /\ api = "is_valid_fwht_length" /\ pc = "done"
    /\ arg = 16 /\ valid

\* ------------------------------------------------------------------ C7

\* C7: next_power_of_two(n) is total over every usize n: it returns 1 for
\* n in {0, 1} and otherwise the smallest power of two p >= n, so p is a
\* power of two, p >= n and p < 2n for n >= 1.
C7_NextPowerOfTwoTotal ==
    (api = "next_power_of_two" /\ pc = "done") =>
        /\ ret = "returned"
        /\ IsPow2(pow)
        /\ pow >= arg
        /\ arg <= 1 => pow = 1
        /\ arg >= 1 => pow < 2 * arg

\* ------------------------------------------------------------------ C8

\* C8 as stated: every entry point, on every container shape, returns for
\* the same element sequence the same outcome: Ok with the same transformed
\* values, or the same error.
C8_SameOutcomeAlways ==
    (Transforming /\ pc = "done" /\ calls = 1) =>
        [ret |-> ret, data |-> NowElems] = RefOutcome(OrigElems)

\* C8 as amended: the same for every container whose storage is contiguous;
\* a non-contiguous Array1 gets the NotContiguous error from the trait,
\* which no other entry point returns for those elements.
C8_SameOutcomeContiguous ==
    (Transforming /\ pc = "done" /\ calls = 1) =>
        IF NonContiguous
        THEN ret = ErrNotContiguous /\ NowElems = OrigElems
        ELSE [ret |-> ret, data |-> NowElems] = RefOutcome(OrigElems)

C8_Witness ==
    /\ api = "trait" /\ shape = "array" /\ mode = "copy"
    /\ pc = "done" /\ ret = "Ok"
    /\ OrigElems = <<1, 1, 1, 0>>
    /\ NowElems = <<3, 1, 1, 0 - 1>>

\* ------------------------------------------------------------------ C9

C10_WindowOnly ==
    (Transforming /\ shape = "slice") =>
        /\ Len(mem.caller) = Len(orig)
        /\ \A p \in 1..Len(orig) :
              (p <= lo \/ p > lo + len) => mem.caller[p] = orig[p]
        /\ pc \in {"read_x", "write_lo"} =>
              (DataIdx(j) > lo /\ DataIdx(j) <= lo + len)
        /\ pc \in {"read_y", "write_hi"} =>
              (DataIdx(j + h) > lo /\ DataIdx(j + h) <= lo + len)
        /\ (pc = "done" /\ ret = "Ok" /\ calls = 1) =>
              NowElems = WHT(OrigElems)
        /\ (pc = "done" /\ ret # "Ok") =>
              (ret = ErrInvalidLength /\ mem.caller = orig)

C10_Witness ==
    /\ api = "fn" /\ shape = "slice" /\ pc = "done" /\ ret = "Ok"
    /\ lo = 2 /\ len = 4 /\ Len(orig) = 8
    /\ orig = <<0, 1, 1, 1, 1, 0, 1, 1>>
    /\ mem.caller = <<0, 1, 3, 1, 1, 0 - 1, 1, 1>>

\* ------------------------------------------------------------------ C11

\* The elements of the second call's view in a buffer.
PeerElems(s) == [k \in 1..peer.len |-> s[peer.lo + k]]

\* C11: two in-place calls on non-overlapping views of one buffer, their
\* reads and writes interleaved in every possible way, do not disturb each
\* other: each call touches only positions of its own view, a view no call
\* has started on or has finished with is not changed by the other call's
\* steps, each finished call leaves exactly the outcome of the same call
\* run alone, and the elements of neither view keep their values.
C11_DisjointCallsIndependent ==
    /\ Len(mem.caller) = Len(orig)
    /\ \A p \in 1..Len(orig) :
          ((p <= lo \/ p > lo + len) /\ (p <= peer.lo \/ p > peer.lo + peer.len))
              => mem.caller[p] = orig[p]
    /\ pc \in {"read_x", "write_lo"} =>
          (DataIdx(j) > lo /\ DataIdx(j) <= lo + len)
    /\ pc \in {"read_y", "write_hi"} =>
          (DataIdx(j + h) > lo /\ DataIdx(j + h) <= lo + len)
    /\ peer.pc \in {"read_x", "write_lo"} =>
          (PeerIdx(peer.j) > peer.lo /\ PeerIdx(peer.j) <= peer.lo + peer.len)
    /\ peer.pc \in {"read_y", "write_hi"} =>
          (PeerIdx(peer.j + peer.h) > peer.lo
           /\ PeerIdx(peer.j + peer.h) <= peer.lo + peer.len)
    /\ pc \in {"call", "len_check"} => NowElems = OrigElems
    /\ peer.pc \in {"call", "len_check"} => PeerElems(mem.caller) = PeerElems(orig)
    /\ pc = "done" =>
          /\ ret = RefOutcome(OrigElems).ret
          /\ NowElems = RefOutcome(OrigElems).data
    /\ peer.pc = "done" =>
          /\ peer.ret = RefOutcome(PeerElems(orig)).ret
          /\ PeerElems(mem.caller) = RefOutcome(PeerElems(orig)).data

\* Both calls have finished: a length-4 view and a length-2 view after it.
C11_Witness ==
    /\ pc = "done" /\ ret = "Ok" /\ peer.pc = "done" /\ peer.ret = "Ok"
    /\ lo = 0 /\ len = 4 /\ peer.lo = 4 /\ peer.len = 2
    /\ orig = <<1, 0, 1, 1, 0, 1>>
    /\ mem.caller = <<3, 1, 0 - 1, 1, 1, 0 - 1>>

\* ------------------------------------------------------------------ C12

\* What the claim says of the stage and butterfly counts along a call.
C12_Counts ==
    /\ ret # "panic"
    /\ pc \in {"call", "len_check"} => (mem.caller = orig /\ bf = 0)
    /\ (~ValidLen(len) /\ pc \notin {"call", "len_check"}) =>
          /\ pc = "done" /\ ret = ErrInvalidLength
          /\ mem.caller = orig
          /\ bf = 0 /\ stages = 0
    /\ (pc = "while" /\ ValidLen(len)) =>
          /\ h = Pow2(stages)
          /\ h <= n
          /\ bf = stages * (n \div 2)
    /\ (pc \in EnginePcs \ {"len_check", "while"}) =>
          /\ h = Pow2(stages)
          /\ h <= n \div 2
          /\ bf >= stages * (n \div 2)
          /\ bf <= (stages + 1) * (n \div 2)
    /\ (pc = "done" /\ len = 0) => (ret = "Ok" /\ bf = 0 /\ stages = 0)
    /\ (pc = "done" /\ IsPow2(len)) =>
          /\ ret = "Ok"
          /\ n = len /\ h = n
          /\ Pow2(stages) = n
          /\ bf = stages * (n \div 2)

\* C12: every call to the engine terminates.  For an invalid length it
\* returns the error with nothing mutated; for a valid length n = 2^m >= 1
\* the stage loop runs exactly m stages with h = 1, 2, 4, ..., n/2, each
\* of exactly n/2 butterflies, and the call returns Ok with h = n.
C12_Terminates == []C12_Counts /\ <>(pc = "done")

\* The same for the element types whose + and - cannot panic.
C12_TerminatesUnlessChecked ==
    /\ [](arith # "checked" => C12_Counts)
    /\ <>(pc = "done")

\* ------------------------------------------------------------------ C13

\* The transform of s in the arithmetic of the element type.
StoredWHT(s) == [k \in 1..Len(s) |-> Stored(WHT(s)[k])]

\* C13: for fixed-width integer elements and every input of valid length,
\* inputs whose x + y or x - y leaves the type's range included, a call
\* ends with Ok and the view fully transformed or with an error value and
\* the view unchanged: it never aborts and never stops midway.
C13_OkOrUnchanged ==
    (arith \in {"checked", "wrapping"} /\ ValidLen(len)) =>
        /\ ret # "panic"
        /\ pc = "done" =>
              \/ ret = "Ok" /\ NowElems = StoredWHT(OrigElems)
              \/ ret = ErrInvalidLength /\ mem.caller = orig

\* ------------------------------------------------------------------ C14

\* All five calls have returned: saved holds the transforms of a, b, a + b
\* and a - b, and the buffer holds the transform of the all-zero sequence.
AllTransformed == pc = "done" /\ todo = <<>> /\ Len(saved) = 4

\* C14: the transform is linear.  For sequences a and b of one valid
\* length, without overflow, transform(a + b) = transform(a) + transform(b)
\* and transform(a - b) = transform(a) - transform(b) element by element,
\* and the transform of the all-zero sequence is all zero.
C14_Linear ==
    AllTransformed =>
        /\ ret = "Ok"
        /\ saved[3] = SeqAdd(saved[1], saved[2])
        /\ saved[4] = SeqSub(saved[1], saved[2])
        /\ mem.caller = Zeros(len)

\* a = (1, 0, 1, 1) and b = (0, 1, 1, 0) and their sum and difference.
C14_Witness ==
    /\ AllTransformed
    /\ saved[1] = <<3, 1, 0 - 1, 1>>
    /\ saved[2] = <<2, 0, 0, 0 - 2>>
    /\ saved[3] = <<5, 1, 0 - 1, 0 - 1>>
    /\ saved[4] = <<1, 1, 0 - 1, 3>>

\* ------------------------------------------------------------------ C15

\* Inside a stage, and inside one butterfly of it.
StagePcs == {"for_i", "for_j", "read_x", "read_y", "write_lo", "write_hi"}
ButterflyPcs == {"read_x", "read_y", "write_lo", "write_hi"}

\* Every index of the slice has been accessed exactly once in this stage.
AllOnce(cnt) == Len(cnt) = n /\ \A k \in 1..n : cnt[k] = 1

\* C15: in every stage with half-size h of a call on a valid length
\* n >= 2, the butterfly pairs (j, j + h) over the blocks i = 0, 2h, 4h,
\* ... and offsets j in [i, i + h) partition the indices 0..n-1: no index
\* is read or written twice in a stage and at the end of the stage every
\* index has been read once and written once; x and y are both read
\* before either is written; j + h <= n - 1, so no access is out of
\* bounds, and h * 2 <= n.
C15_ButterflyPartition ==
    /\ pc \in StagePcs =>
          /\ n >= 2 /\ h * 2 <= n
          /\ i % (h * 2) = 0
          /\ Len(rd) = n /\ Len(wr) = n
          /\ \A k \in 1..n : rd[k] <= 1 /\ wr[k] <= 1
    /\ pc \in ButterflyPcs =>
          /\ i <= j /\ j < i + h
          /\ j + h <= n - 1
    /\ pc = "read_x" =>
          (rd[j + 1] = 0 /\ rd[j + h + 1] = 0 /\ wr[j + 1] = 0 /\ wr[j + h + 1] = 0)
    /\ pc = "read_y" =>
          (rd[j + 1] = 1 /\ rd[j + h + 1] = 0 /\ wr[j + 1] = 0 /\ wr[j + h + 1] = 0)
    /\ pc = "write_lo" =>
          (rd[j + 1] = 1 /\ rd[j + h + 1] = 1 /\ wr[j + 1] = 0 /\ wr[j + h + 1] = 0)
    /\ pc = "write_hi" =>
          (rd[j + 1] = 1 /\ rd[j + h + 1] = 1 /\ wr[j + 1] = 1 /\ wr[j + h + 1] = 0)
    /\ (pc = "for_i" /\ i >= n) => (AllOnce(rd) /\ AllOnce(wr))
    /\ (pc = "while" /\ stages >= 1) => (AllOnce(rd) /\ AllOnce(wr))
    /\ (ret = "panic") => (arith = "checked" /\ pc = "done" /\ j + h <= n - 1)

\* The stage h = 2 of a length-8 call has just ended.
C15_Witness ==
    /\ pc = "for_i" /\ i >= n /\ n = 8 /\ h = 2 /\ bf = 8
    /\ AllOnce(rd) /\ AllOnce(wr)
    /\ mem.caller # orig

\* ------------------------------------------------------------------ C16

\* The b-th aligned block of hh consecutive elements of s (b from 0).
Block(s, b, hh) == [k \in 1..hh |-> s[b * hh + k]]

\* C16: loop invariant of the stage loop.  At the start of each iteration
\* of the while loop h is a power of two, 1 <= h <= n, h divides n, and
\* every aligned block [b*h, (b+1)*h) of the view holds the length-h
\* Hadamard transform (in the element type's arithmetic) of the same block
\* of the original input; on exit h = n and the whole view is the
\* transform of the input.
C16_StageLoopInvariant ==
    /\ pc = "while" =>
          /\ IsPow2(h)
          /\ 1 <= h /\ h <= n
          /\ n % h = 0
          /\ \A b \in 0..((n \div h) - 1) :
                Block(NowElems, b, h) = StoredWHT(Block(OrigElems, b, h))
    /\ (pc = "done" /\ ret = "Ok" /\ len >= 1) =>
          /\ h = n
          /\ NowElems = StoredWHT(OrigElems)

\* The loop head after the first stage of a length-4 call: two blocks of 2.
C16_Witness ==
    /\ pc = "while" /\ n = 4 /\ h = 2 /\ stages = 1
    /\ orig = <<1, 1, 1, 0>>
    /\ mem.caller = <<2, 0, 1, 1>>


====
